---- MODULE Spec2Model ----
(***************************************************************************)
(* Risk modelling service of the clearway back end                         *)
(* (backend/app/services/ml/risk_modeling_service.py): investor default    *)
(* risk scoring with tiering and trend tracking, and fund performance      *)
(* risk, both persisting a RiskPrediction row.                             *)
(*                                                                         *)
(* Numbers.  The service computes in Python floats; the model computes in  *)
(* exact fixed point:                                                      *)
(*   - rates (on_time_payment_rate, leverage_ratio, recent_sentiment_score,*)
(*     account_growth_rate) are integers in hundredths (85 is 0.85);       *)
(*   - the raw risk score is an integer in hundredths of a point;          *)
(*   - a probability or an amount is an exact fraction [num, den], den > 0;*)
(*   - current_balance is in thousands of currency units;                  *)
(*   - a simulated return is an integer in basis points (820 is 0.082);    *)
(*   - a fraction with den = 0 is the float nan.                           *)
(* A nullable column or an Optional value is a sequence of length <= 1:    *)
(* <<>> is None / NULL, <<v>> is the value v.                              *)
(***************************************************************************)
EXTENDS Integers, Sequences, FiniteSets, TLC

VARIABLES ai_models, predictions, response, np_random_state

vars == <<ai_models, predictions, response, np_random_state>>

(***************************************************************************)
(* Bounds of the model                                                     *)
(***************************************************************************)
MaxPredictions == 3     \* rows of ai_predictions_risk the model lets in
MaxLateCount == 3       \* late_payment_count values the scorer is tried on
MaxMissedCount == 2     \* missed_payment_count values the scorer is tried on
MaxFactors == 2         \* length of the factor lists recommendations are tried on
NumSamples == 11        \* samples drawn by the simulation, of the 10000
MaxSamples == 3         \* length of the arrays VaR and CVaR are tried on
MaxTableRows == 4       \* rows of the tables the trend lookup is tried on

(***************************************************************************)
(* Python helpers                                                          *)
(***************************************************************************)
None == <<>>
Some(v) == <<v>>
IsNone(o) == o = <<>>
Val(o) == o[1]

Min(a, b) == IF a <= b THEN a ELSE b
Max(a, b) == IF a >= b THEN a ELSE b
Abs(a) == IF a >= 0 THEN a ELSE -a

\* int(n / d) for d > 0: Python's int() truncates toward zero
IntTrunc(n, d) == IF n >= 0 THEN n \div d ELSE -((-n) \div d)

\* round(n / d) for d > 0: Python's round() goes to the nearest integer, a tie
\* to the even one
PyRound(n, d) ==
    LET fl == n \div d
        r2 == 2 * (n - fl * d)
    IN  IF r2 < d THEN fl
        ELSE IF r2 > d THEN fl + 1
        ELSE IF fl % 2 = 0 THEN fl ELSE fl + 1

Frac(n, d) == [num |-> n, den |-> d]
FracLt(p, n, d) == p.num * d < n * p.den      \* p < n/d
FracLe(p, q) == p.num * q.den <= q.num * p.den

\* bool(x) of an Optional number: None and 0 are falsy
Truthy(o) == ~IsNone(o) /\ Val(o) # 0

\* Python's `x or d` on a nullable numeric column
OrDefault(o, d) == IF Truthy(o) THEN Val(o) ELSE d

(***************************************************************************)
(* RiskModelingService.__init__                                            *)
(***************************************************************************)
default_risk_model_id == "DEFAULT_RISK_NN_V2.3"
fund_risk_model_id == "FUND_RISK_MC_V1.5"

ModelIds == {default_risk_model_id, fund_risk_model_id}
ModelStatuses == {"STAGING", "PRODUCTION"}

(***************************************************************************)
(* _generate_default_risk_features: the vector used when the feature store *)
(* has no row for the investor                                             *)
(***************************************************************************)
_generate_default_risk_features ==
    [late_payment_count |-> 1,
     missed_payment_count |-> 0,
     on_time_payment_rate |-> 90,
     current_balance |-> 1000,
     account_growth_rate |-> 8,
     leverage_ratio |-> 30,
     recent_sentiment_score |-> 60]

(***************************************************************************)
(* _extract_risk_features: feature_record is the result of the FeatureStore*)
(* query (.first()): <<>> or <<row>>, a row's columns being nullable.      *)
(* The columns no computation reads (avg_payment_delay_days,               *)
(* liquidity_risk, sentiment_trend, communication_frequency, portfolio_*,  *)
(* diversification_score) are left out.                                    *)
(***************************************************************************)
\* an absent row read as a row of NULL columns
_extract_risk_features_null_row(feature_record) ==
    [late_payment_count |-> 0,
     missed_payment_count |-> 0,
     on_time_payment_rate |-> 90,
     current_balance |-> 1000,
     account_growth_rate |-> 8,
     leverage_ratio |-> 30,
     recent_sentiment_score |-> 60]

_extract_risk_features(feature_record) ==
    IF IsNone(feature_record) THEN _generate_default_risk_features
    ELSE LET r == Val(feature_record) IN
        [late_payment_count |-> OrDefault(r.late_payment_count, 0),
         missed_payment_count |-> OrDefault(r.missed_payment_count, 0),
         on_time_payment_rate |-> OrDefault(r.on_time_payment_rate, 90),
         current_balance |-> OrDefault(r.current_balance, 1000),
         account_growth_rate |-> OrDefault(r.account_growth_rate, 8),
         leverage_ratio |-> OrDefault(r.leverage_ratio, 30),
         recent_sentiment_score |-> OrDefault(r.recent_sentiment_score, 60)]

(***************************************************************************)
(* _predict_default_risk                                                   *)
(***************************************************************************)
\* the capped sum of the five contributions, in hundredths of a point
RawRiskScore(features) ==
    LET late_payment_score == features.late_payment_count * 500
        missed_payment_score == features.missed_payment_count * 1500
        on_time_bonus == (100 - features.on_time_payment_rate) * 30
        leverage_score == features.leverage_ratio * 20
        sentiment_score == Max(0, 50 - features.recent_sentiment_score) * 25
    IN  Min(10000, late_payment_score + missed_payment_score +
                   on_time_bonus + leverage_score + sentiment_score)

\* int(risk_score), mutated: rounded to the nearest integer
ScoreToIntRounded(raw) == PyRound(raw, 100)

\* int(risk_score)
ScoreToInt(raw) == IntTrunc(raw, 100)

\* the scorer with the missed-payment weight of the late-payment term
_predict_default_risk_weights(features) ==
    LET raw == Min(10000, features.late_payment_count * 500
               + features.missed_payment_count * 500
               + (100 - features.on_time_payment_rate) * 30
               + features.leverage_ratio * 20
               + Max(0, 50 - features.recent_sentiment_score) * 25)
    IN  [risk_probability |-> Frac(raw, 40000),
         risk_score |-> ScoreToInt(raw)]

\* risk_probability = risk_score / 100 * 0.25; returns (risk_probability,
\* int(risk_score))
_predict_default_risk(features) ==
    LET risk_score == RawRiskScore(features)
    IN  [risk_probability |-> Frac(risk_score, 40000),
         risk_score |-> ScoreToInt(risk_score)]

(***************************************************************************)
(* _calculate_risk_tier                                                    *)
(***************************************************************************)
\* the tiers with the TIER_2 / TIER_3 boundary taken inclusive (<= 0.05)
_calculate_risk_tier_inclusive(risk_probability) ==
    IF FracLt(risk_probability, 2, 100) THEN "TIER_1"
    ELSE IF ~FracLt(Frac(5, 100), risk_probability.num, risk_probability.den)
        THEN "TIER_2"
    ELSE IF FracLt(risk_probability, 10, 100) THEN "TIER_3"
    ELSE IF FracLt(risk_probability, 20, 100) THEN "TIER_4"
    ELSE "TIER_5"

_calculate_risk_tier(risk_probability) ==
    IF FracLt(risk_probability, 2, 100) THEN "TIER_1"
    ELSE IF FracLt(risk_probability, 5, 100) THEN "TIER_2"
    ELSE IF FracLt(risk_probability, 10, 100) THEN "TIER_3"
    ELSE IF FracLt(risk_probability, 20, 100) THEN "TIER_4"
    ELSE "TIER_5"

\* the DEFAULT_RISK rows of every investor
DefaultRiskRowsAnyInvestor(rows, investor_id) ==
    SelectSeq(rows, LAMBDA p : p.risk_type = "DEFAULT_RISK")

(***************************************************************************)
(* The ai_predictions_risk table (RiskPrediction).  Rows are kept in commit *)
(* order; prediction_timestamp (datetime.utcnow() at creation) is the row's *)
(* position, so commit order is timestamp order.  prediction_id (a fresh    *)
(* uuid) is modelled by the same number.                                    *)
(***************************************************************************)
\* filter(RiskPrediction.investor_id == investor_id,
\*        RiskPrediction.risk_type == "DEFAULT_RISK"), oldest first
DefaultRiskRows(rows, investor_id) ==
    SelectSeq(rows, LAMBDA p : p.investor_id = Some(investor_id)
                               /\ p.risk_type = "DEFAULT_RISK")

\* .order_by(prediction_timestamp.desc()).offset(k).first() over rows given
\* oldest first
OrderDescOffsetFirst(rows, k) ==
    IF Len(rows) > k THEN Some(rows[Len(rows) - k]) ELSE None

(***************************************************************************)
(* _calculate_risk_trend                                                   *)
(***************************************************************************)
\* the thresholds taken inclusive (diff >= 5, diff <= -5)
TrendOfInclusive(diff) ==
    IF diff >= 5 THEN "DETERIORATING"
    ELSE IF diff <= -5 THEN "IMPROVING"
    ELSE "STABLE"

TrendOf(diff) ==
    IF diff > 5 THEN "DETERIORATING"
    ELSE IF diff < -5 THEN "IMPROVING"
    ELSE "STABLE"

\* the lookup answering "no previous score" with 0 instead of current_score
_calculate_risk_trend_zero(rows, investor_id, current_score) ==
    LET previous_prediction ==
            OrderDescOffsetFirst(DefaultRiskRows(rows, investor_id), 1)
    IN  IF IsNone(previous_prediction)
        THEN [previous_score |-> 0, trend |-> TrendOf(current_score)]
        ELSE LET previous_score == Val(previous_prediction).risk_score
             IN  [previous_score |-> previous_score,
                  trend |-> TrendOf(current_score - previous_score)]

\* rows is the table at the time of the query: the prediction being computed
\* is added to the session only later (db.add), so it is not among them
_calculate_risk_trend(rows, investor_id, current_score) ==
    LET previous_prediction ==
            OrderDescOffsetFirst(DefaultRiskRows(rows, investor_id), 1)
    IN  IF IsNone(previous_prediction)
        THEN [previous_score |-> current_score, trend |-> "STABLE"]
        ELSE LET previous_score == Val(previous_prediction).risk_score
                 diff == current_score - previous_score
             IN  [previous_score |-> previous_score, trend |-> TrendOf(diff)]

\* abs(risk_score - previous_score) if previous_score else 0
TrendMagnitude(risk_score, previous_score) ==
    IF Truthy(previous_score) THEN Abs(risk_score - Val(previous_score)) ELSE 0

(***************************************************************************)
(* _identify_risk_factors (weights in hundredths)                          *)
(***************************************************************************)
_identify_risk_factors(features) ==
    LET factors ==
            (IF features.late_payment_count > 2
             THEN <<[factor |-> "recent_payment_delays", weight |-> 28]>>
             ELSE <<>>)
            \o (IF features.account_growth_rate < 0
             THEN <<[factor |-> "account_balance_decline", weight |-> 22]>>
             ELSE <<>>)
            \o (IF features.recent_sentiment_score < 30
             THEN <<[factor |-> "communication_sentiment_negative",
                     weight |-> 18]>>
             ELSE <<>>)
            \o (IF features.leverage_ratio > 50
             THEN <<[factor |-> "high_leverage_ratio", weight |-> 15]>>
             ELSE <<>>)
    IN  IF factors = <<>>
        THEN <<[factor |-> "portfolio_volatility", weight |-> 20],
               [factor |-> "market_conditions", weight |-> 15]>>
        ELSE SubSeq(factors, 1, Min(5, Len(factors)))

(***************************************************************************)
(* _calculate_loss_exposure: feature_record is the result of its own       *)
(* FeatureStore query                                                      *)
(***************************************************************************)
total_portfolio == 15000

\* balance = feature_record.current_balance if feature_record else 1000000
LossExposureBalance(feature_record) ==
    IF IsNone(feature_record) THEN Some(1000)
    ELSE Val(feature_record).current_balance

\* None * float raises TypeError
LossExposureRaises(feature_record) == IsNone(LossExposureBalance(feature_record))

\* the exposure on the balance of the feature vector (current_balance or
\* 1000000) instead of the row's own column
_calculate_loss_exposure_defaulted(feature_record, risk_probability) ==
    LET balance == _extract_risk_features(feature_record).current_balance
    IN  [amount |-> Frac(balance * risk_probability.num, risk_probability.den),
         percentage |-> Frac(balance * risk_probability.num,
                             risk_probability.den * (total_portfolio \div 100))]

_calculate_loss_exposure(feature_record, risk_probability) ==
    LET balance == Val(LossExposureBalance(feature_record))
    IN  [amount |-> Frac(balance * risk_probability.num, risk_probability.den),
         percentage |-> Frac(balance * risk_probability.num,
                             risk_probability.den * (total_portfolio \div 100))]

(***************************************************************************)
(* _generate_risk_recommendations                                          *)
(***************************************************************************)
HasFactor(factors, name) == \E i \in 1..Len(factors) : factors[i].factor = name

\* the rules without the fallback entry
_generate_risk_recommendations_no_fallback(risk_tier, factors) ==
    (IF risk_tier \in {"TIER_4", "TIER_5"}
     THEN <<"Increase monitoring frequency to weekly",
            "Schedule relationship manager call",
            "Review account covenants">>
     ELSE <<>>)
    \o (IF HasFactor(factors, "recent_payment_delays")
     THEN <<"Investigate payment processing issues">>
     ELSE <<>>)

\* the factor rules ahead of the tier rule
_generate_risk_recommendations_factors_first(risk_tier, factors) ==
    (IF HasFactor(factors, "recent_payment_delays")
     THEN <<"Investigate payment processing issues">>
     ELSE <<>>)
    \o (IF risk_tier \in {"TIER_4", "TIER_5"}
     THEN <<"Increase monitoring frequency to weekly",
            "Schedule relationship manager call",
            "Review account covenants">>
     ELSE <<"Continue standard monitoring">>)

_generate_risk_recommendations(risk_tier, factors) ==
    LET recommendations ==
            (IF risk_tier \in {"TIER_4", "TIER_5"}
             THEN <<"Increase monitoring frequency to weekly",
                    "Schedule relationship manager call",
                    "Review account covenants">>
             ELSE <<>>)
            \o (IF HasFactor(factors, "recent_payment_delays")
             THEN <<"Investigate payment processing issues">>
             ELSE <<>>)
            \o (IF HasFactor(factors, "communication_sentiment_negative")
             THEN <<"Proactive outreach to address concerns">>
             ELSE <<>>)
    IN  IF recommendations = <<>>
        THEN <<"Continue standard monitoring">>
        ELSE recommendations

(***************************************************************************)
(* Inputs                                                                  *)
(***************************************************************************)
Investors == {"INV_1", "INV_2"}
Funds == {"FUND_1"}
Horizons == {"12M"}

FeatureRow(late, missed, on_time, balance, growth, leverage, sentiment) ==
    [late_payment_count |-> late,
     missed_payment_count |-> missed,
     on_time_payment_rate |-> on_time,
     current_balance |-> balance,
     account_growth_rate |-> growth,
     leverage_ratio |-> leverage,
     recent_sentiment_score |-> sentiment]

\* rows of feature_store: one scoring 0, one scoring 19 (5 above the default
\* vector's 14), one with every nullable column NULL
FeatureRows ==
    {FeatureRow(Some(0), Some(0), Some(100), Some(500), Some(8), Some(4), Some(60)),
     FeatureRow(Some(2), Some(0), Some(90), Some(1000), Some(-5), Some(30), Some(60)),
     FeatureRow(None, None, None, None, None, None, None)}

\* what the FeatureStore query of one assessment returns (.first()): the
\* table is written by the feature pipeline, never by this service
FeatureQueryResults == {None} \cup {Some(r) : r \in FeatureRows}

ScenarioInputs == {None, Some(<<>>), Some(<<"BEAR", "BULL">>)}

(***************************************************************************)
(* The model registry (ai_models): db.query(AIModel).filter(model_id == ..,*)
(* status == "PRODUCTION").first()                                         *)
(***************************************************************************)
\* the query without the status filter
ModelQueryAnyStatus(registry, model_id) == Some(model_id)

ModelQuery(registry, model_id) ==
    IF registry[model_id] = "PRODUCTION" THEN Some(model_id) ELSE None

ErrorResponse(op, error, message) ==
    [op |-> op, status |-> error, message |-> message]

\* the exposure under the keys _calculate_loss_exposure returns it with
EstimatedLossExposureAsComputed(loss_exposure) ==
    [amount |-> loss_exposure.amount, percentage |-> loss_exposure.percentage]

\* "estimated_loss_exposure" of the response
EstimatedLossExposure(loss_exposure) ==
    [amount |-> loss_exposure.amount,
     percentage_of_portfolio |-> loss_exposure.percentage]

\* session.merge of the new row over the latest one, in place of add
db_merge_commit(rows, prediction) ==
    IF rows = <<>> THEN <<prediction>>
    ELSE [rows EXCEPT ![Len(rows)] = prediction]

\* self.db.add(prediction); self.db.commit(): the table gains the row
db_add_commit(rows, prediction) == Append(rows, prediction)

(***************************************************************************)
(* assess_investor_default_risk.  The FeatureStore is queried twice, by    *)
(* _extract_risk_features and later by _calculate_loss_exposure:           *)
(* feature_record is what the first query returned, exposure_record what   *)
(* the second did.                                                         *)
(***************************************************************************)
DefaultRiskAssessment(rows, investor_id, risk_horizon, include_trend, feature_record, exposure_record) ==
    LET features == _extract_risk_features(feature_record)
        scored == _predict_default_risk(features)
        risk_probability == scored.risk_probability
        risk_score == scored.risk_score
        risk_tier == _calculate_risk_tier(risk_probability)
        trend == _calculate_risk_trend(rows, investor_id, risk_score)
        previous_score == IF include_trend THEN Some(trend.previous_score)
                          ELSE None
        risk_trend == IF include_trend THEN trend.trend ELSE "STABLE"
        top_risk_factors == _identify_risk_factors(features)
        loss_exposure == _calculate_loss_exposure(exposure_record,
                                                  risk_probability)
        recommendations == _generate_risk_recommendations(risk_tier,
                                                          top_risk_factors)
        prediction ==
            [prediction_id |-> Len(rows) + 1,
             model_id |-> default_risk_model_id,
             risk_type |-> "DEFAULT_RISK",
             risk_horizon |-> risk_horizon,
             investor_id |-> Some(investor_id),
             fund_id |-> None,
             risk_probability |-> risk_probability,
             risk_tier |-> Some(risk_tier),
             risk_score |-> risk_score,
             previous_risk_score |-> previous_score,
             risk_trend |-> Some(risk_trend),
             trend_magnitude |-> Some(TrendMagnitude(risk_score, previous_score)),
             top_risk_factors |-> top_risk_factors,
             estimated_loss_exposure |-> Some(loss_exposure.amount),
             exposure_percentage |-> Some(loss_exposure.percentage),
             contributing_metrics |-> None,
             recommended_actions |-> recommendations,
             prediction_timestamp |-> Len(rows) + 1]
    IN  [prediction |-> prediction,
         result |->
            [op |-> "assess_investor_default_risk",
             status |-> "ok",
             include_trend |-> include_trend,
             feature_record |-> feature_record,
             exposure_record |-> exposure_record,
             features |-> features,
             prediction_id |-> prediction.prediction_id,
             investor_id |-> investor_id,
             risk_type |-> "DEFAULT_RISK",
             risk_horizon |-> risk_horizon,
             default_probability |-> risk_probability,
             risk_tier |-> risk_tier,
             risk_score |-> risk_score,
             risk_trend |->
                [previous_score |-> previous_score,
                 trend |-> risk_trend,
                 magnitude |-> TrendMagnitude(risk_score, previous_score),
                 trend_period |-> "30_days"],
             top_risk_factors |-> top_risk_factors,
             estimated_loss_exposure |->
                EstimatedLossExposure(loss_exposure),
             recommended_actions |-> recommendations]]

assess_investor_default_risk(investor_id, risk_horizon, include_trend, feature_record, exposure_record) ==
    LET model == ModelQuery(ai_models, default_risk_model_id)
    IN  /\ UNCHANGED <<ai_models, np_random_state>>
        /\ IF IsNone(model)
           THEN /\ response' = ErrorResponse("assess_investor_default_risk",
                        "ValueError", "Default risk model not found")
                /\ UNCHANGED predictions
           ELSE IF LossExposureRaises(exposure_record)
           THEN /\ response' =
                    [op |-> "assess_investor_default_risk",
                     status |-> "TypeError",
                     message |-> "unsupported operand type(s) for *",
                     feature_record |-> feature_record,
                     exposure_record |-> exposure_record]
                /\ UNCHANGED predictions
           ELSE LET a == DefaultRiskAssessment(predictions, investor_id,
                            risk_horizon, include_trend, feature_record,
                            exposure_record)
                IN  /\ Len(predictions) < MaxPredictions
                    /\ predictions' = db_add_commit(predictions, a.prediction)
                    /\ response' = a.result

(***************************************************************************)
(* numpy's process-wide generator (np.random), shared by all the code of   *)
(* the process: np_random_state is the seed it was last seeded with (None  *)
(* while the program has not seeded it) and the number of deviates drawn   *)
(* since.                                                                  *)
(***************************************************************************)
\* np.random.seed(seed)
np_random_seed(seed) == [seed |-> Some(seed), pos |-> 0]

\* the head of the stream of standard normal deviates of the generator
\* seeded with 42, in hundredths
StandardNormals42 ==
    <<50, -14, 65, 152, -23, -23, 158, 77, -47, 54, -46, -47, 24, -191, -172>>

\* np.random.normal(loc, scale, size) on the generator in state `state`,
\* which the service has always just seeded with 42: loc in basis points,
\* scale in hundredths
np_random_normal(state, loc, scale, size) ==
    [i \in 1..size |-> loc + scale * StandardNormals42[state.pos + i]]

(***************************************************************************)
(* assess_fund_performance_risk.  The sample array is cut down from 10000  *)
(* to NumSamples deviates.  Of mc_results and the risk metrics the model   *)
(* keeps what it can compute exactly: the samples, their minimum, the      *)
(* share of positive ones, the percentiles behind VaR and CVaR, and        *)
(* whether the Sharpe and Sortino divisions fail.                          *)
(***************************************************************************)
\* returns and volatility in hundredths; the fields no computation reads
\* (sharpe_ratio, max_drawdown, correlation_sp500, asset_allocation) are
\* left out
_extract_fund_features(fund_id) ==
    [historical_returns |-> <<8, 12, -3, 15, 9>>, volatility |-> 18]

RECURSIVE SumSeq(_)
SumSeq(s) == IF s = <<>> THEN 0 ELSE s[1] + SumSeq(Tail(s))

NaN == Frac(0, 0)
IsNaN(x) == x.den = 0

Indices(returns, Keep(_)) == {i \in 1..Len(returns) : Keep(returns[i])}

\* float(np.mean(simulated_returns > 0))
ProbPositive(returns) ==
    Frac(Cardinality(Indices(returns, LAMBDA r : r > 0)), Len(returns))

\* the interpolation on the samples as they were drawn, not sorted
PercentileUnsorted(returns, q) ==
    LET position == q * (Len(returns) - 1)
        lower == position \div 100 + 1
        part == position % 100
    IN  IF part = 0 THEN Frac(returns[lower] * 100, 100)
        ELSE Frac(returns[lower] * 100
                    + part * (returns[lower + 1] - returns[lower]), 100)

\* np.percentile(returns, q), q a whole percentage: linear interpolation
\* between the two sorted samples around position q / 100 * (n - 1)
Percentile(returns, q) ==
    LET sorted == SortSeq(returns, LAMBDA a, b : a < b)
        position == q * (Len(returns) - 1)
        lower == position \div 100 + 1
        part == position % 100
    IN  IF part = 0 THEN Frac(sorted[lower] * 100, 100)
        ELSE Frac(sorted[lower] * 100
                    + part * (sorted[lower + 1] - sorted[lower]), 100)

\* the percentile at the confidence itself
_calculate_var_at_confidence(returns, confidence) ==
    Percentile(returns, confidence)

\* confidence in hundredths: np.percentile(returns, (1 - confidence) * 100)
_calculate_var(returns, confidence) == Percentile(returns, 100 - confidence)

\* the mean of the returns at or above the VaR
_calculate_cvar_upper_tail(returns, confidence) ==
    LET var == _calculate_var(returns, confidence)
        tail == Indices(returns, LAMBDA r : r * var.den >= var.num)
    IN  Frac(SumSeq([i \in 1..Len(returns) |->
                        IF i \in tail THEN returns[i] ELSE 0]),
             Cardinality(tail))

\* np.mean(returns[returns <= var]); the mean of no element is nan
_calculate_cvar(returns, confidence) ==
    LET var == _calculate_var(returns, confidence)
        tail == Indices(returns, LAMBDA r : r * var.den <= var.num)
    IN  Frac(SumSeq([i \in 1..Len(returns) |->
                        IF i \in tail THEN returns[i] ELSE 0]),
             Cardinality(tail))

\* the statistics _run_monte_carlo_simulation returns with the samples:
\* np.min, np.mean(returns > 0) and np.percentile at 5, 25, 50, 75 and 95
\* (np.mean and np.std of the samples are not computed)
ReturnStatistics(simulated_returns) ==
    [max_drawdown |->
        Frac(SortSeq(simulated_returns, LAMBDA a, b : a < b)[1], 1),
     prob_positive |-> ProbPositive(simulated_returns),
     p5 |-> Percentile(simulated_returns, 5),
     p25 |-> Percentile(simulated_returns, 25),
     p50 |-> Percentile(simulated_returns, 50),
     p75 |-> Percentile(simulated_returns, 75),
     p95 |-> Percentile(simulated_returns, 95)]

\* the statistics of an array of nan: nan, and no sample is > 0
NaNStatistics ==
    [max_drawdown |-> NaN, prob_positive |-> Frac(0, NumSamples),
     p5 |-> NaN, p25 |-> NaN, p50 |-> NaN, p75 |-> NaN, p95 |-> NaN]

\* _run_monte_carlo_simulation seeds the process-wide generator with 42 and
\* draws the samples from it.  np.mean of an empty series is nan (with a
\* RuntimeWarning, no exception), and so is every sample drawn around it:
\* `nan` says so, and `returns` then holds no number.  The mean is exact for
\* the series of the model, whose means are whole basis points.
_run_monte_carlo_simulation(features) ==
    LET historical_returns == features.historical_returns
        nan == historical_returns = <<>>
        seeded == np_random_seed(42)
        simulated_returns ==
            IF nan THEN [i \in 1..NumSamples |-> NaN]
            ELSE np_random_normal(seeded,
                    (SumSeq(historical_returns) * 100)
                        \div Len(historical_returns),
                    features.volatility, NumSamples)
        statistics == IF nan THEN NaNStatistics
                      ELSE ReturnStatistics(simulated_returns)
    IN  [nan |-> nan,
         returns |-> simulated_returns,
         max_drawdown |-> statistics.max_drawdown,
         prob_positive |-> statistics.prob_positive,
         p5 |-> statistics.p5,
         p25 |-> statistics.p25,
         p50 |-> statistics.p50,
         p75 |-> statistics.p75,
         p95 |-> statistics.p95,
         state |-> [seeded EXCEPT !.pos = NumSamples]]

risk_free_rate == 200

\* float(np.std(a)) == 0.0 for a non-empty array: all its elements are equal
StdIsZero(returns, idx) == \A i \in idx, j \in idx : returns[i] = returns[j]

\* _calculate_sharpe_ratio divides by mc_results["volatility"]
SharpeRaises(returns) == StdIsZero(returns, 1..Len(returns))

\* _calculate_sortino_ratio divides by the std of the returns below the
\* risk-free rate 0.02, or by the volatility when there are none
SortinoRaises(returns) ==
    LET downside_returns == Indices(returns, LAMBDA r : r < risk_free_rate)
    IN  IF downside_returns # {} THEN StdIsZero(returns, downside_returns)
        ELSE StdIsZero(returns, 1..Len(returns))

\* _run_scenario_analysis; returns and volatilities in hundredths
ScenarioParams(scenario) ==
    CASE scenario = "BULL" -> [return |-> 15, volatility |-> 12]
      [] scenario = "BEAR" -> [return |-> -15, volatility |-> 25]
      [] scenario = "TAIL_EVENT" -> [return |-> -30, volatility |-> 40]
      [] OTHER -> [return |-> 8, volatility |-> 18]

_run_scenario_analysis(scenarios) ==
    [i \in 1..Len(scenarios) |->
        [scenario |-> scenarios[i],
         expected_return |-> ScenarioParams(scenarios[i]).return,
         volatility |-> ScenarioParams(scenarios[i]).volatility,
         probability |-> IF scenarios[i] = "BASE" THEN 25 ELSE 10]]

\* risk_score = int((1 - prob_positive) * 100), mutated: scaled by the
\* scorer's probability cap 0.25
FundRiskScoreCapScaled(risk_probability) ==
    IntTrunc(risk_probability.num * 400, risk_probability.den)

\* risk_score = int((1 - prob_positive) * 100)
FundRiskScore(risk_probability) ==
    IntTrunc(risk_probability.num * 100, risk_probability.den)

\* the metrics of a nan array are nan: the percentile of nan samples, and the
\* mean of the empty tail no nan sample belongs to
FundRiskAssessment(rows, fund_id, scenarios, features) ==
    LET mc_results == _run_monte_carlo_simulation(features)
        var_95 == IF mc_results.nan THEN NaN
                  ELSE _calculate_var(mc_results.returns, 95)
        var_99 == IF mc_results.nan THEN NaN
                  ELSE _calculate_var(mc_results.returns, 99)
        cvar_95 == IF mc_results.nan THEN NaN
                   ELSE _calculate_cvar(mc_results.returns, 95)
        prob_positive == mc_results.prob_positive
        risk_probability == Frac(prob_positive.den - prob_positive.num,
                                 prob_positive.den)
        scenario_names == IF IsNone(scenarios) \/ Val(scenarios) = <<>>
                          THEN <<"BULL", "BASE", "BEAR", "TAIL_EVENT">>
                          ELSE Val(scenarios)
        prediction ==
            [prediction_id |-> Len(rows) + 1,
             model_id |-> fund_risk_model_id,
             risk_type |-> "FUND_PERFORMANCE_RISK",
             risk_horizon |-> "12M",
             investor_id |-> None,
             fund_id |-> Some(fund_id),
             risk_probability |-> risk_probability,
             risk_tier |-> None,
             risk_score |-> FundRiskScore(risk_probability),
             previous_risk_score |-> None,
             risk_trend |-> None,
             trend_magnitude |-> None,
             top_risk_factors |-> <<>>,
             estimated_loss_exposure |-> None,
             exposure_percentage |-> None,
             contributing_metrics |->
                Some([var_95 |-> var_95, cvar_95 |-> cvar_95,
                      max_drawdown |-> mc_results.max_drawdown]),
             recommended_actions |-> <<>>,
             prediction_timestamp |-> Len(rows) + 1]
    IN  [prediction |-> prediction,
         result |->
            [op |-> "assess_fund_performance_risk",
             status |-> "ok",
             prediction_id |-> prediction.prediction_id,
             fund_id |-> fund_id,
             scenarios |-> scenarios,
             features |-> features,
             risk_metrics |->
                [var_95 |-> var_95, var_99 |-> var_99, cvar_95 |-> cvar_95,
                 max_drawdown |-> mc_results.max_drawdown],
             return_distribution |->
                [percentile_5 |-> mc_results.p5,
                 percentile_25 |-> mc_results.p25,
                 percentile_50 |-> mc_results.p50,
                 percentile_75 |-> mc_results.p75,
                 percentile_95 |-> mc_results.p95],
             probability_positive_return |-> prob_positive,
             scenario_analysis |-> _run_scenario_analysis(scenario_names)]]

\* the handler adding the row before the ratios are computed
assess_fund_performance_risk_write_first(fund_id, scenarios, features) ==
    LET model == ModelQuery(ai_models, fund_risk_model_id)
        mc_results == _run_monte_carlo_simulation(features)
        a == FundRiskAssessment(predictions, fund_id, scenarios, features)
    IN  /\ UNCHANGED ai_models
        /\ IF IsNone(model)
           THEN /\ response' = ErrorResponse("assess_fund_performance_risk",
                        "ValueError", "Fund risk model not found")
                /\ UNCHANGED <<predictions, np_random_state>>
           ELSE /\ Len(predictions) < MaxPredictions
                /\ predictions' = db_add_commit(predictions, a.prediction)
                /\ np_random_state' = mc_results.state
                /\ response' =
                     IF /\ ~mc_results.nan
                        /\ \/ SharpeRaises(mc_results.returns)
                           \/ SortinoRaises(mc_results.returns)
                     THEN ErrorResponse("assess_fund_performance_risk",
                            "ZeroDivisionError", "float division by zero")
                     ELSE a.result

\* features is what _extract_fund_features returned.  With nan samples the
\* Sharpe and Sortino ratios are nan / nan, which raises nothing.
assess_fund_performance_risk(fund_id, scenarios, features) ==
    LET model == ModelQuery(ai_models, fund_risk_model_id)
        mc_results == _run_monte_carlo_simulation(features)
    IN  /\ UNCHANGED ai_models
        /\ IF IsNone(model)
           THEN /\ response' = ErrorResponse("assess_fund_performance_risk",
                        "ValueError", "Fund risk model not found")
                /\ UNCHANGED <<predictions, np_random_state>>
           ELSE IF /\ ~mc_results.nan
                   /\ \/ SharpeRaises(mc_results.returns)
                      \/ SortinoRaises(mc_results.returns)
           THEN /\ response' = ErrorResponse("assess_fund_performance_risk",
                        "ZeroDivisionError", "float division by zero")
                /\ np_random_state' = mc_results.state
                /\ UNCHANGED predictions
           ELSE LET a == FundRiskAssessment(predictions, fund_id, scenarios,
                                            features)
                IN  /\ Len(predictions) < MaxPredictions
                    /\ predictions' = db_add_commit(predictions, a.prediction)
                    /\ np_random_state' = mc_results.state
                    /\ response' = a.result

(***************************************************************************)
(* The registry is maintained outside the service: a model is promoted to  *)
(* PRODUCTION or taken out of it.                                          *)
(***************************************************************************)
SetModelStatus(model_id, status) ==
    /\ ai_models[model_id] # status
    /\ ai_models' = [ai_models EXCEPT ![model_id] = status]
    /\ UNCHANGED <<predictions, response, np_random_state>>

(***************************************************************************)
(* The service over a database session.  A call runs to completion as one  *)
(* step: the handlers await only coroutines that never suspend.  No other  *)
(* process commits to the FeatureStore during a call: both queries of an   *)
(* assessment return the same row.                                         *)
(***************************************************************************)
Init ==
    /\ ai_models = [m \in ModelIds |-> "STAGING"]
    /\ predictions = <<>>
    /\ response = [op |-> "none", status |-> "none"]
    /\ np_random_state = [seed |-> None, pos |-> 0]

AssessDefault ==
    \E investor_id \in Investors, risk_horizon \in Horizons,
       include_trend \in BOOLEAN, feature_record \in FeatureQueryResults :
        assess_investor_default_risk(investor_id, risk_horizon, include_trend,
                                     feature_record, feature_record)

AssessFund ==
    \E fund_id \in Funds, scenarios \in ScenarioInputs :
        assess_fund_performance_risk(fund_id, scenarios,
                                     _extract_fund_features(fund_id))

Registry ==
    \E model_id \in ModelIds, status \in ModelStatuses :
        SetModelStatus(model_id, status)

Next == AssessDefault \/ AssessFund \/ Registry

Spec == Init /\ [][Next]_vars

(***************************************************************************)
(* The scorer and the tiering as pure functions: _predict_default_risk on  *)
(* every feature vector of a grid, _calculate_risk_tier on probabilities   *)
(* over [0, 1] (in 1/40000, every 0.0025 and next to each tier boundary).  *)
(* Each behaviour applies one of them to one input.                        *)
(***************************************************************************)
OnTimeRates == {0, 85, 90, 100, 120}
LeverageRatios == {-100, 0, 4, 30, 60, 200}
SentimentScores == {-50, 0, 30, 50, 60}

FeatureVectors ==
    {[late_payment_count |-> late,
      missed_payment_count |-> missed,
      on_time_payment_rate |-> on_time,
      current_balance |-> 1000,
      account_growth_rate |-> 8,
      leverage_ratio |-> leverage,
      recent_sentiment_score |-> sentiment] :
        late \in 0..MaxLateCount, missed \in 0..MaxMissedCount,
        on_time \in OnTimeRates, leverage \in LeverageRatios,
        sentiment \in SentimentScores}

TierProbabilities ==
    {Frac(100 * k, 40000) : k \in 0..400}
    \cup {Frac(b + d, 40000) : b \in {800, 2000, 4000, 8000}, d \in {-1, 0, 1}}

ScoreFeatures ==
    \E features \in FeatureVectors :
        LET scored == _predict_default_risk(features)
        IN  /\ response.op = "none"
            /\ response' =
                [op |-> "_predict_default_risk",
                 status |-> "ok",
                 features |-> features,
                 risk_probability |-> scored.risk_probability,
                 risk_score |-> scored.risk_score,
                 risk_tier |-> _calculate_risk_tier(scored.risk_probability)]
            /\ UNCHANGED <<ai_models, predictions, np_random_state>>

TierOf ==
    \E risk_probability \in TierProbabilities :
        /\ response.op = "none"
        /\ response' =
            [op |-> "_calculate_risk_tier",
             status |-> "ok",
             risk_probability |-> risk_probability,
             risk_tier |-> _calculate_risk_tier(risk_probability)]
        /\ UNCHANGED <<ai_models, predictions, np_random_state>>

ScorerNext == ScoreFeatures \/ TierOf

ScorerSpec == Init /\ [][ScorerNext]_vars

(***************************************************************************)
(* _calculate_loss_exposure as a function of what the FeatureStore query   *)
(* returned and of the probability: no row, a row without a balance, and   *)
(* rows with a balance of 0 and more, on probabilities over [0, 0.25].     *)
(***************************************************************************)
ExposureBalances == {None, Some(0), Some(250), Some(1000), Some(1500)}

ExposureQueryResults ==
    {None} \cup {Some(FeatureRow(Some(1), Some(0), Some(90), balance, Some(8),
                                 Some(30), Some(60))) :
                    balance \in ExposureBalances}

ExposureProbabilities == {Frac(100 * k, 40000) : k \in 0..100}

LossExposure ==
    \E feature_record \in ExposureQueryResults,
       risk_probability \in ExposureProbabilities :
        /\ response.op = "none"
        /\ response' =
            IF LossExposureRaises(feature_record)
            THEN [op |-> "_calculate_loss_exposure",
                  status |-> "TypeError",
                  message |-> "unsupported operand type(s) for *",
                  feature_record |-> feature_record,
                  risk_probability |-> risk_probability]
            ELSE LET loss_exposure ==
                         _calculate_loss_exposure(feature_record,
                                                  risk_probability)
                 IN  [op |-> "_calculate_loss_exposure",
                      status |-> "ok",
                      feature_record |-> feature_record,
                      risk_probability |-> risk_probability,
                      amount |-> loss_exposure.amount,
                      percentage |-> loss_exposure.percentage]
        /\ UNCHANGED <<ai_models, predictions, np_random_state>>

ExposureSpec == Init /\ [][LossExposure]_vars

(***************************************************************************)
(* _generate_risk_recommendations as a function of the tier and of the     *)
(* factor list: every tier, every list of up to MaxFactors factors.        *)
(***************************************************************************)
RiskTiers == {"TIER_1", "TIER_2", "TIER_3", "TIER_4", "TIER_5"}

FactorNames ==
    {"recent_payment_delays", "account_balance_decline",
     "communication_sentiment_negative", "high_leverage_ratio",
     "portfolio_volatility", "market_conditions"}

FactorLists ==
    UNION {[1..n -> {[factor |-> name, weight |-> 20] : name \in FactorNames}] :
             n \in 0..MaxFactors}

Recommend ==
    \E risk_tier \in RiskTiers, factors \in FactorLists :
        /\ response.op = "none"
        /\ response' =
            [op |-> "_generate_risk_recommendations",
             status |-> "ok",
             risk_tier |-> risk_tier,
             factors |-> factors,
             recommended_actions |->
                _generate_risk_recommendations(risk_tier, factors)]
        /\ UNCHANGED <<ai_models, predictions, np_random_state>>

RecommendationSpec == Init /\ [][Recommend]_vars

(***************************************************************************)
(* POST /risk-assessment (api/v1/ai_predictions.py).  An exception of the  *)
(* service other than HTTPException reaches the client as HTTP 500 with    *)
(* the exception's text; the response keeps the exception.                 *)
(***************************************************************************)
RiskAssessmentRequests ==
    [investor_id : {None, Some("INV_1")},
     fund_id : {None, Some("FUND_1")},
     risk_type : {"DEFAULT_RISK", "FUND_PERFORMANCE_RISK", "LIQUIDITY_RISK"},
     risk_horizon : {"12M", "24M"},
     include_trend : BOOLEAN]

HTTPException(status_code, detail) ==
    [op |-> "assess_risk", status |-> "HTTPException",
     status_code |-> status_code, detail |-> detail]

assess_risk(request, feature_record) ==
    IF request.risk_type = "DEFAULT_RISK"
    THEN IF IsNone(request.investor_id)
         THEN /\ response' = HTTPException(400,
                                "investor_id required for DEFAULT_RISK")
              /\ UNCHANGED <<ai_models, predictions, np_random_state>>
         ELSE assess_investor_default_risk(Val(request.investor_id),
                  request.risk_horizon, request.include_trend, feature_record,
                  feature_record)
    ELSE IF request.risk_type = "FUND_PERFORMANCE_RISK"
    THEN IF IsNone(request.fund_id)
         THEN /\ response' = HTTPException(400,
                                "fund_id required for FUND_PERFORMANCE_RISK")
              /\ UNCHANGED <<ai_models, predictions, np_random_state>>
         ELSE assess_fund_performance_risk(Val(request.fund_id), None,
                  _extract_fund_features(Val(request.fund_id)))
    ELSE /\ response' = HTTPException(400, "Invalid risk_type")
         /\ UNCHANGED <<ai_models, predictions, np_random_state>>

ApiFeatureQueryResults ==
    {None,
     Some(FeatureRow(Some(2), Some(0), Some(90), Some(1000), Some(-5),
                     Some(30), Some(60)))}

PostRiskAssessment ==
    \E request \in RiskAssessmentRequests,
       feature_record \in ApiFeatureQueryResults :
        assess_risk(request, feature_record)

ApiNext == PostRiskAssessment \/ Registry

ApiSpec == Init /\ [][ApiNext]_vars

(***************************************************************************)
(* The fund assessment and the simulator on what a query of the fund's     *)
(* historical returns can return (_extract_fund_features is a placeholder  *)
(* for it): the placeholder's statistics, an empty series, a volatility of *)
(* 0, and two more series.  The simulator is also called on its own, with  *)
(* and without a seed argument: _run_monte_carlo_simulation(self, features)*)
(* has no such parameter, and Python raises TypeError on the call that     *)
(* passes one.                                                             *)
(***************************************************************************)
FundFeatureInputs ==
    {[historical_returns |-> <<8, 12, -3, 15, 9>>, volatility |-> 18],
     [historical_returns |-> <<>>, volatility |-> 18],
     [historical_returns |-> <<8, 12, -3, 15, 9>>, volatility |-> 0],
     [historical_returns |-> <<-5, 5>>, volatility |-> 25],
     [historical_returns |-> <<12>>, volatility |-> 18]}

SeedArguments == {None, Some(7), Some(42)}

AssessFundOn ==
    \E fund_id \in Funds, features \in FundFeatureInputs :
        assess_fund_performance_risk(fund_id, None, features)

RunSimulation ==
    \E features \in FundFeatureInputs, seed \in SeedArguments :
        LET mc_results == _run_monte_carlo_simulation(features)
        IN  /\ IF ~IsNone(seed)
               THEN /\ response' =
                        [op |-> "_run_monte_carlo_simulation",
                         status |-> "TypeError",
                         message |-> "got an unexpected keyword argument 'seed'",
                         features |-> features,
                         seed |-> seed]
                    /\ UNCHANGED np_random_state
               ELSE /\ response' =
                        [op |-> "_run_monte_carlo_simulation",
                         status |-> "ok",
                         features |-> features,
                         seed |-> seed,
                         stream_seed |-> mc_results.state.seed,
                         nan |-> mc_results.nan,
                         returns |-> mc_results.returns,
                         var_95 |-> IF mc_results.nan THEN NaN
                                    ELSE _calculate_var(mc_results.returns, 95)]
                    /\ np_random_state' = mc_results.state
            /\ UNCHANGED <<ai_models, predictions>>

FundNext == AssessFundOn \/ RunSimulation \/ Registry

FundSpec == Init /\ [][FundNext]_vars

(***************************************************************************)
(* _calculate_var and _calculate_cvar as functions of the sample array and *)
(* of the confidence (in hundredths): every array of up to MaxSamples      *)
(* returns over a few values; each behaviour applies them to one input.    *)
(***************************************************************************)
SampleValues == {-300, -100, 0, 250, 500}

ReturnArrays == UNION {[1..n -> SampleValues] : n \in 1..MaxSamples}

Confidences == {0, 50, 90, 95, 99, 100}

TailRisk ==
    \E returns \in ReturnArrays, confidence \in Confidences :
        /\ response.op = "none"
        /\ response' =
            [op |-> "_calculate_cvar",
             status |-> "ok",
             returns |-> returns,
             confidence |-> confidence,
             var |-> _calculate_var(returns, confidence),
             cvar |-> _calculate_cvar(returns, confidence)]
        /\ UNCHANGED <<ai_models, predictions, np_random_state>>

TailRiskSpec == Init /\ [][TailRisk]_vars

(***************************************************************************)
(* The statistics of the samples and the two risk-adjusted ratios as       *)
(* functions of the sample array, on the arrays VaR and CVaR are tried on. *)
(* A ratio is a Python float division: it raises ZeroDivisionError on a    *)
(* divisor of 0.0.                                                         *)
(***************************************************************************)
ReturnDistribution ==
    \E returns \in ReturnArrays :
        LET statistics == ReturnStatistics(returns)
        IN  /\ response.op = "none"
            /\ response' =
                [op |-> "_run_monte_carlo_simulation.statistics",
                 status |-> "ok",
                 returns |-> returns,
                 max_drawdown |-> statistics.max_drawdown,
                 p5 |-> statistics.p5,
                 p25 |-> statistics.p25,
                 p50 |-> statistics.p50,
                 p75 |-> statistics.p75,
                 p95 |-> statistics.p95,
                 var_95 |-> _calculate_var(returns, 95),
                 var_99 |-> _calculate_var(returns, 99)]
            /\ UNCHANGED <<ai_models, predictions, np_random_state>>

RiskRatios ==
    \E returns \in ReturnArrays :
        /\ response.op = "none"
        /\ response' =
            [op |-> "_calculate_sortino_ratio",
             status |-> IF SharpeRaises(returns) \/ SortinoRaises(returns)
                        THEN "ZeroDivisionError" ELSE "ok",
             returns |-> returns,
             sharpe_raises |-> SharpeRaises(returns),
             sortino_raises |-> SortinoRaises(returns)]
        /\ UNCHANGED <<ai_models, predictions, np_random_state>>

DistributionNext == ReturnDistribution \/ RiskRatios

DistributionSpec == Init /\ [][DistributionNext]_vars

(***************************************************************************)
(* The default-risk assessment while the feature pipeline, another         *)
(* process, commits FeatureStore rows: each query of the session sees what *)
(* is committed when it runs, so the second query of an assessment can     *)
(* return a row newer than the first did (rows are never deleted).         *)
(***************************************************************************)
RacingFeatureQueryResults ==
    {None,
     Some(FeatureRow(Some(0), Some(0), Some(100), Some(500), Some(8), Some(4),
                     Some(60))),
     Some(FeatureRow(Some(2), Some(0), Some(90), Some(1000), Some(-5),
                     Some(30), Some(60)))}

AssessDefaultDuringFeatureCommit ==
    \E investor_id \in Investors, include_trend \in BOOLEAN,
       feature_record \in RacingFeatureQueryResults,
       exposure_record \in RacingFeatureQueryResults :
        /\ IsNone(exposure_record) => IsNone(feature_record)
        /\ assess_investor_default_risk(investor_id, "12M", include_trend,
                                        feature_record, exposure_record)

RacingNext == AssessDefaultDuringFeatureCommit \/ Registry

RacingSpec == Init /\ [][RacingNext]_vars

(***************************************************************************)
(* Both handlers on inputs that make each of their steps fail: no          *)
(* production model, a feature row without a balance (the exposure         *)
(* fails), fund statistics with a volatility of 0 (the ratios fail).       *)
(***************************************************************************)
FailingFeatureQueryResults ==
    {None, Some(FeatureRow(None, None, None, None, None, None, None))}

AssessDefaultOn ==
    \E feature_record \in FailingFeatureQueryResults :
        assess_investor_default_risk("INV_1", "12M", TRUE, feature_record,
                                     feature_record)

FailureNext == AssessDefaultOn \/ AssessFundOn \/ Registry

FailureSpec == Init /\ [][FailureNext]_vars

(***************************************************************************)
(* _extract_risk_features as a function of the FeatureStore row: every     *)
(* column NULL, 0 or another value.                                        *)
(***************************************************************************)
ExtractedRows ==
    {FeatureRow(late, missed, on_time, balance, growth, leverage, sentiment) :
        late \in {None, Some(0), Some(2)},
        missed \in {None, Some(0), Some(1)},
        on_time \in {None, Some(0), Some(85)},
        balance \in {None, Some(0), Some(500)},
        growth \in {None, Some(0), Some(-5)},
        leverage \in {None, Some(0), Some(60)},
        sentiment \in {None, Some(0), Some(30)}}

ExtractFeatures ==
    \E feature_record \in {None} \cup {Some(r) : r \in ExtractedRows} :
        /\ response.op = "none"
        /\ response' =
            [op |-> "_extract_risk_features",
             status |-> "ok",
             feature_record |-> feature_record,
             features |-> _extract_risk_features(feature_record)]
        /\ UNCHANGED <<ai_models, predictions, np_random_state>>

ExtractSpec == Init /\ [][ExtractFeatures]_vars

(***************************************************************************)
(* _calculate_risk_trend as a function of the table: every table of up to  *)
(* MaxTableRows rows, oldest first, of default-risk assessments of two     *)
(* investors and fund assessments (a row is cut down to the columns the    *)
(* lookup reads), for investor INV_1.                                      *)
(***************************************************************************)
TableRows ==
    {[investor_id |-> Some("INV_1"), fund_id |-> None,
      risk_type |-> "DEFAULT_RISK", risk_score |-> score] :
        score \in {0, 14, 30}}
    \cup {[investor_id |-> Some("INV_2"), fund_id |-> None,
           risk_type |-> "DEFAULT_RISK", risk_score |-> 30],
          [investor_id |-> None, fund_id |-> Some("FUND_1"),
           risk_type |-> "FUND_PERFORMANCE_RISK", risk_score |-> 18]}

Tables == UNION {[1..n -> TableRows] : n \in 0..MaxTableRows}

LookUpTrend ==
    \E rows \in Tables, current_score \in {0, 14} :
        LET trend == _calculate_risk_trend(rows, "INV_1", current_score)
        IN  /\ response.op = "none"
            /\ response' =
                [op |-> "_calculate_risk_trend",
                 status |-> "ok",
                 rows |-> rows,
                 investor_id |-> "INV_1",
                 current_score |-> current_score,
                 previous_score |-> trend.previous_score,
                 trend |-> trend.trend]
            /\ UNCHANGED <<ai_models, predictions, np_random_state>>

TrendSpec == Init /\ [][LookUpTrend]_vars

(***************************************************************************)
(* Properties of assess_investor_default_risk                              *)
(***************************************************************************)
\* the last call was a completed default-risk assessment
DefaultRiskDone ==
    response.op = "assess_investor_default_risk" /\ response.status = "ok"

\* the DEFAULT_RISK rows of the assessed investor committed before the
\* assessment the response reports, oldest first
PriorDefaultRiskRows ==
    SelectSeq(SubSeq(predictions, 1, response.prediction_id - 1),
              LAMBDA p : p.risk_type = "DEFAULT_RISK"
                         /\ p.investor_id = <<response.investor_id>>)

\* C1: while the default-risk model is not registered with status PRODUCTION,
\* a call of assess_investor_default_risk ends with the ValueError and leaves
\* the persisted risk records as they were.
C1_NoProductionModelNoWrite ==
    [][(/\ ai_models[default_risk_model_id] # "PRODUCTION"
        /\ response' # response
        /\ response'.op = "assess_investor_default_risk")
       => (/\ response'.status = "ValueError"
           /\ predictions' = predictions)]_vars

C1_Witness ==
    /\ response.op = "assess_investor_default_risk"
    /\ response.status = "ValueError"
    /\ ai_models[default_risk_model_id] # "PRODUCTION"
    /\ Len(predictions) > 0

\* C2: an assessment with trend enabled reports as previous_score the score
\* of the most recently committed prior DEFAULT_RISK assessment of the
\* investor, whenever there is one.
C2_PreviousScoreIsLatestPrior ==
    (DefaultRiskDone /\ response.include_trend /\ PriorDefaultRiskRows # <<>>)
    => response.risk_trend.previous_score
         = <<PriorDefaultRiskRows[Len(PriorDefaultRiskRows)].risk_score>>

\* C3: with no prior DEFAULT_RISK assessment of the investor, the trend is
\* STABLE and previous_score is the current score, in the response and in the
\* persisted row.
C3_NoPriorStable ==
    (DefaultRiskDone /\ response.include_trend /\ PriorDefaultRiskRows = <<>>)
    => /\ response.risk_trend.trend = "STABLE"
       /\ response.risk_trend.previous_score = <<response.risk_score>>
       /\ predictions[response.prediction_id].risk_trend = <<"STABLE">>
       /\ predictions[response.prediction_id].previous_risk_score
            = <<response.risk_score>>

C3_Witness ==
    /\ DefaultRiskDone
    /\ response.include_trend
    /\ PriorDefaultRiskRows = <<>>
    /\ response.prediction_id > 1
    /\ response.risk_score > 5
    /\ response.risk_trend.trend = "STABLE"

\* C4: in every persisted assessment whose trend was computed, with
\* diff = risk_score - previous_risk_score the trend is DETERIORATING exactly
\* when diff > 5, IMPROVING exactly when diff < -5 and STABLE otherwise.
C4_TrendThresholds ==
    \A i \in 1..Len(predictions) :
        LET p == predictions[i] IN
        (p.risk_type = "DEFAULT_RISK" /\ p.previous_risk_score # <<>>)
        => LET diff == p.risk_score - p.previous_risk_score[1] IN
           /\ (p.risk_trend = <<"DETERIORATING">>) <=> (diff > 5)
           /\ (p.risk_trend = <<"IMPROVING">>) <=> (diff < -5)
           /\ (p.risk_trend = <<"STABLE">>) <=> (diff >= -5 /\ diff <= 5)

\* a prior score 5 below the current one was found: STABLE at the boundary
C4_Witness ==
    /\ DefaultRiskDone
    /\ response.include_trend
    /\ response.risk_trend.previous_score = <<response.risk_score - 5>>
    /\ response.risk_trend.trend = "STABLE"
    /\ predictions[response.prediction_id].risk_trend = <<"STABLE">>

\* C5: with trend enabled, the reported and the persisted trend magnitude
\* equal abs(risk_score - previous_score), for every previous score.
C5_MagnitudeIsAbsDiff ==
    (DefaultRiskDone /\ response.include_trend)
    => LET previous_score == response.risk_trend.previous_score[1]
           magnitude == IF response.risk_score >= previous_score
                        THEN response.risk_score - previous_score
                        ELSE previous_score - response.risk_score
       IN  /\ response.risk_trend.magnitude = magnitude
           /\ predictions[response.prediction_id].trend_magnitude
                = <<magnitude>>

Scored == response.op = "_predict_default_risk"

\* lateCount*5 + missedCount*15 + (1 - onTimeRate)*30 + leverageRatio*20
\* + max(0, 0.5 - sentimentScore)*25, in hundredths of a point
ContributionSum(f) ==
    500 * f.late_payment_count + 1500 * f.missed_payment_count
    + 30 * (100 - f.on_time_payment_rate) + 20 * f.leverage_ratio
    + (IF f.recent_sentiment_score < 50
       THEN 25 * (50 - f.recent_sentiment_score) ELSE 0)

\* C6: for every feature vector the scorer's probability is rawScore/100 * 0.25
\* with rawScore the sum of the five contributions capped at 100.
C6_ScorerFormula ==
    Scored =>
        LET sum == ContributionSum(response.features)
            rawScore == IF sum > 10000 THEN 10000 ELSE sum
        IN  \* probability = (rawScore / 100) / 100 * (1 / 4)
            response.risk_probability.num * 100 * 100 * 4
              = rawScore * response.risk_probability.den

\* all five contributions at work, below the cap
C6_Witness ==
    /\ Scored
    /\ response.features.late_payment_count > 0
    /\ response.features.missed_payment_count > 0
    /\ response.features.on_time_payment_rate = 85
    /\ response.features.leverage_ratio = 30
    /\ response.features.recent_sentiment_score = 30
    /\ response.risk_probability = Frac(3550, 40000)

\* the feature vector of the scenario: lateCount=3, missedCount=0,
\* onTimeRate=0.85, leverageRatio=0.3, sentimentScore=0.6
ScenarioScored ==
    /\ Scored
    /\ response.features.late_payment_count = 3
    /\ response.features.missed_payment_count = 0
    /\ response.features.on_time_payment_rate = 85
    /\ response.features.leverage_ratio = 30
    /\ response.features.recent_sentiment_score = 60

TierRank(tier) ==
    CASE tier = "TIER_1" -> 1 [] tier = "TIER_2" -> 2 [] tier = "TIER_3" -> 3
      [] tier = "TIER_4" -> 4 [] tier = "TIER_5" -> 5

\* C9: for a probability p in [0, 1] the tier is TIER_1 when p < 0.02, TIER_2
\* when 0.02 <= p < 0.05, TIER_3 when 0.05 <= p < 0.10, TIER_4 when
\* 0.10 <= p < 0.20 and TIER_5 when p >= 0.20, and no smaller probability
\* gets a higher tier.
C9_TierTable ==
    LET p == response.risk_probability
        n == p.num * 100
        d == p.den
    IN  (response.op \in {"_calculate_risk_tier", "_predict_default_risk"}
         /\ 0 <= p.num /\ p.num <= p.den)
        => /\ (response.risk_tier = "TIER_1") <=> (n < 2 * d)
           /\ (response.risk_tier = "TIER_2") <=> (2 * d <= n /\ n < 5 * d)
           /\ (response.risk_tier = "TIER_3") <=> (5 * d <= n /\ n < 10 * d)
           /\ (response.risk_tier = "TIER_4") <=> (10 * d <= n /\ n < 20 * d)
           /\ (response.risk_tier = "TIER_5") <=> (20 * d <= n)
           /\ \A q \in TierProbabilities :
                FracLe(q, p) => TierRank(_calculate_risk_tier(q))
                                  <= TierRank(response.risk_tier)

\* the probability 0.05, a lower boundary, is in TIER_3
C9_Witness ==
    /\ response.op = "_calculate_risk_tier"
    /\ response.risk_probability = Frac(2000, 40000)
    /\ response.risk_tier = "TIER_3"

\* C10: for every feature vector the scorer's probability is in [0, 0.25] and
\* its integer score in [0, 100].
C10_ScorerBounded ==
    Scored =>
        /\ 0 <= response.risk_probability.num
        /\ response.risk_probability.num * 4 <= response.risk_probability.den
        /\ 0 <= response.risk_score
        /\ response.risk_score <= 100

(***************************************************************************)
(* Properties of _calculate_loss_exposure                                  *)
(***************************************************************************)
RECURSIVE GCD(_, _)
GCD(a, b) == IF b = 0 THEN a ELSE GCD(b, a % b)

\* a fraction in lowest terms
Reduced(f) ==
    LET g == GCD(Abs(f.num), f.den)
    IN  Frac(f.num \div g, f.den \div g)

FracEq(p, q) == Reduced(p) = Reduced(q)
FracMul(p, q) == Reduced(Frac(Reduced(p).num * Reduced(q).num,
                              Reduced(p).den * Reduced(q).den))
FracDiv(p, q) == FracMul(p, Frac(q.den, q.num))

ExposureCalled == response.op = "_calculate_loss_exposure"

\* the investor has a feature row and its current_balance is not NULL
ExposureHasBalance ==
    /\ ~IsNone(response.feature_record)
    /\ ~IsNone(Val(response.feature_record).current_balance)

\* C11: the loss exposure amount is the investor's current balance times the
\* probability, and the exposure percentage is the amount over the total
\* portfolio value of 15,000,000, times 100.
C11_ExposureFormula ==
    (ExposureCalled /\ ExposureHasBalance)
    => /\ response.status = "ok"
       /\ LET balance == Val(Val(response.feature_record).current_balance)
          IN  /\ FracEq(response.amount,
                        FracMul(Frac(balance, 1), response.risk_probability))
              /\ FracEq(response.percentage,
                        FracMul(FracDiv(response.amount,
                                        Frac(total_portfolio, 1)),
                                Frac(100, 1)))

C11_Witness ==
    /\ ExposureCalled /\ ExposureHasBalance
    /\ Val(Val(response.feature_record).current_balance) = 250
    /\ response.risk_probability = Frac(2000, 40000)
    /\ FracEq(response.amount, Frac(25, 2))
    /\ FracEq(response.percentage, Frac(1, 12))

\* C12: the exposure is computed whether or not a balance is there: with no
\* feature row, or a row whose current_balance is NULL, the call returns the
\* exposure on the default balance of 1,000,000.
C12_MissingBalanceDefaults ==
    (ExposureCalled /\ ~ExposureHasBalance)
    => /\ response.status = "ok"
       /\ FracEq(response.amount,
                 FracMul(Frac(1000, 1), response.risk_probability))

(***************************************************************************)
(* Properties of _generate_risk_recommendations                            *)
(***************************************************************************)
Recommended == response.op = "_generate_risk_recommendations"

\* one of the rules of _generate_risk_recommendations applies to the call
RuleFires ==
    \/ response.risk_tier \in {"TIER_4", "TIER_5"}
    \/ \E i \in DOMAIN response.factors :
          response.factors[i].factor
            \in {"recent_payment_delays", "communication_sentiment_negative"}

FactorActions ==
    {"Investigate payment processing issues",
     "Proactive outreach to address concerns"}

\* C13: for every tier and every list of risk factors the recommended
\* actions are not empty, and they are the single entry "Continue standard
\* monitoring" exactly when no rule fires.
C13_RecommendationsNeverEmpty ==
    Recommended
    => /\ response.recommended_actions # <<>>
       /\ (response.recommended_actions = <<"Continue standard monitoring">>)
            <=> ~RuleFires

C13_Witness ==
    /\ Recommended
    /\ response.risk_tier = "TIER_3"
    /\ Len(response.factors) = 2
    /\ response.recommended_actions = <<"Continue standard monitoring">>

\* C14: for TIER_4 and TIER_5 the recommendations begin with the
\* increase-monitoring action followed by the relationship-manager action and
\* every factor-specific action comes after them; for TIER_1 to TIER_3
\* neither of the two appears.
C14_TierActionsFirst ==
    Recommended
    => LET recs == response.recommended_actions
       IN  IF response.risk_tier \in {"TIER_4", "TIER_5"}
           THEN /\ Len(recs) >= 2
                /\ recs[1] = "Increase monitoring frequency to weekly"
                /\ recs[2] = "Schedule relationship manager call"
                /\ \A i \in DOMAIN recs : recs[i] \in FactorActions => i > 2
           ELSE \A i \in DOMAIN recs :
                    recs[i] \notin {"Increase monitoring frequency to weekly",
                                    "Schedule relationship manager call"}

C14_Witness ==
    /\ Recommended
    /\ response.risk_tier = "TIER_5"
    /\ Len(response.recommended_actions) = 5
    /\ response.recommended_actions[4] = "Investigate payment processing issues"
    /\ response.recommended_actions[5] = "Proactive outreach to address concerns"

(***************************************************************************)
(* Properties of the feature defaults                                      *)
(***************************************************************************)
\* the default-risk model was found and the FeatureStore query of the call
\* returned no row
AssessedWithoutFeatureRecord ==
    /\ response.op = "assess_investor_default_risk"
    /\ response.status # "ValueError"
    /\ IsNone(response.feature_record)

\* C15: with no feature record of the investor, assess_investor_default_risk
\* does not fail: it scores the default vector (late count 1, missed count 0,
\* on-time rate 0.9, leverage 0.3, sentiment 0.6) and persists the
\* assessment.
C15_NoFeatureRecordScoresDefaults ==
    AssessedWithoutFeatureRecord
    => /\ response.status = "ok"
       /\ response.features.late_payment_count = 1
       /\ response.features.missed_payment_count = 0
       /\ response.features.on_time_payment_rate = 90
       /\ response.features.leverage_ratio = 30
       /\ response.features.recent_sentiment_score = 60
       /\ response.risk_score = 14
       /\ response.default_probability = Frac(1400, 40000)
       /\ response.prediction_id \in DOMAIN predictions
       /\ LET row == predictions[response.prediction_id]
          IN  /\ row.investor_id = <<response.investor_id>>
              /\ row.risk_type = "DEFAULT_RISK"
              /\ row.risk_score = 14
              /\ row.risk_probability = Frac(1400, 40000)

C15_Witness ==
    /\ AssessedWithoutFeatureRecord
    /\ response.status = "ok"
    /\ predictions[response.prediction_id].risk_score = 14
    /\ predictions[response.prediction_id].risk_tier = <<"TIER_2">>

(***************************************************************************)
(* Properties of POST /risk-assessment                                     *)
(***************************************************************************)
SupportedRiskTypes == {"DEFAULT_RISK", "FUND_PERFORMANCE_RISK"}
SupportedHorizons == {"3M", "6M", "12M"}

\* C16: a request with an unsupported risk kind or with a horizon outside
\* 3M, 6M, 12M is rejected before anything is computed or persisted: no
\* assessment of such a request completes and no persisted row carries such
\* a kind or horizon.
C16_InvalidRequestRejected ==
    /\ \A i \in 1..Len(predictions) :
          /\ predictions[i].risk_type \in SupportedRiskTypes
          /\ predictions[i].risk_horizon \in SupportedHorizons
    /\ DefaultRiskDone => response.risk_horizon \in SupportedHorizons

(***************************************************************************)
(* Properties of the Monte Carlo simulation                                *)
(***************************************************************************)
FundRiskDone ==
    response.op = "assess_fund_performance_risk" /\ response.status = "ok"

C18_SeedIsExplicitParameter ==
    [][response'.op = "_run_monte_carlo_simulation"
       => /\ ~IsNone(response'.seed)
             => /\ response'.status = "ok"
                /\ response'.stream_seed = response'.seed
          /\ (/\ response.op = "_run_monte_carlo_simulation"
              /\ response.status = "ok" /\ response'.status = "ok"
              /\ response'.features = response.features
              /\ response'.seed = response.seed)
             => /\ response'.returns = response.returns
                /\ response'.var_95 = response.var_95]_vars

\* C19: an assessment reads and writes no state of the process: no step of
\* the service seeds or advances the process-wide random generator.
C19_NoProcessWideState == [][np_random_state' = np_random_state]_vars

(***************************************************************************)
(* Properties of _calculate_var and _calculate_cvar                        *)
(***************************************************************************)
TailRisked == response.op = "_calculate_cvar"

\* C20: for every non-empty array of returns and every confidence, the tail
\* of the returns at or below the VaR is not empty and the CVaR, its mean, is
\* at most the VaR.
C20_CVaRAtMostVaR ==
    TailRisked
    => /\ \E i \in DOMAIN response.returns :
            response.returns[i] * response.var.den <= response.var.num
       /\ ~IsNaN(response.cvar)
       /\ response.cvar.num * response.var.den
            <= response.var.num * response.cvar.den

C20_Witness ==
    /\ TailRisked
    /\ response.returns = <<-300, 0, 250>>
    /\ response.confidence = 95
    /\ response.var = Frac(-27000, 100)
    /\ response.cvar = Frac(-300, 1)

(***************************************************************************)
(* Properties of the return distribution                                   *)
(***************************************************************************)
Distributed == response.op = "_run_monte_carlo_simulation.statistics"

\* C21: for every non-empty array of returns VaR(0.99) <= VaR(0.95), VaR(c)
\* being the (1 - c) * 100-th percentile, so that VaR(0.95) is the reported
\* percentile_5.
C21_VaRMonotone ==
    Distributed
    => /\ FracLe(response.var_99, response.var_95)
       /\ FracEq(response.var_95, response.p5)
       /\ FracEq(response.var_99, Percentile(response.returns, 1))

C21_Witness ==
    /\ Distributed
    /\ response.returns = <<500, -300, 0>>
    /\ response.var_99 = Frac(-29400, 100)
    /\ response.var_95 = Frac(-27000, 100)

\* C22: the reported percentiles are ordered, p5 <= p25 <= p50 <= p75 <= p95,
\* and max_drawdown, the smallest return, is at most p5.
C22_PercentilesOrdered ==
    Distributed
    => /\ FracLe(response.max_drawdown, response.p5)
       /\ FracLe(response.p5, response.p25)
       /\ FracLe(response.p25, response.p50)
       /\ FracLe(response.p50, response.p75)
       /\ FracLe(response.p75, response.p95)
       /\ \A i \in DOMAIN response.returns :
             response.max_drawdown.num <= response.returns[i]
       /\ \E i \in DOMAIN response.returns :
             response.max_drawdown.num = response.returns[i]

C22_Witness ==
    /\ Distributed
    /\ response.returns = <<250, -100, 500>>
    /\ response.max_drawdown = Frac(-100, 1)
    /\ response.p5 = Frac(-6500, 100)
    /\ response.p50 = Frac(25000, 100)
    /\ response.p95 = Frac(47500, 100)

StandardScenarios == <<"BULL", "BASE", "BEAR", "TAIL_EVENT">>

\* the configured return and volatility of a standard scenario, in hundredths
ConfiguredScenario(name) ==
    CASE name = "BULL" -> <<15, 12>>
      [] name = "BASE" -> <<8, 18>>
      [] name = "BEAR" -> <<-15, 25>>
      [] name = "TAIL_EVENT" -> <<-30, 40>>

\* C23: a fund assessment called without scenarios evaluates BULL, BASE,
\* BEAR, TAIL_EVENT in that order; called with a list of names it returns one
\* result per given name, in the given order, each with the configured
\* return and volatility of its name.
C23_ScenariosAsGiven ==
    FundRiskDone
    => LET names == IF IsNone(response.scenarios) THEN StandardScenarios
                    ELSE Val(response.scenarios)
           results == response.scenario_analysis
       IN  /\ Len(results) = Len(names)
           /\ \A i \in 1..Len(names) :
                 /\ results[i].scenario = names[i]
                 /\ <<results[i].expected_return, results[i].volatility>>
                      = ConfiguredScenario(names[i])

(***************************************************************************)
(* Properties of the persisted records                                     *)
(***************************************************************************)
\* C24: a persisted risk assessment is never modified or deleted: a step
\* leaves the persisted records as they are or adds one record after them,
\* and it adds one exactly when an assessment succeeds.
C24_RecordsAppendOnly ==
    [][/\ Len(predictions') \in {Len(predictions), Len(predictions) + 1}
       /\ SubSeq(predictions', 1, Len(predictions)) = predictions
       /\ (Len(predictions') = Len(predictions) + 1)
            <=> (/\ response' # response
                 /\ response'.status = "ok"
                 /\ response'.prediction_id = Len(predictions) + 1)]_vars

\* a second assessment of an investor, which read the first, is persisted
\* next to a fund assessment
C24_Witness ==
    /\ \E i, j \in 1..Len(predictions) :
          /\ i < j
          /\ predictions[i].risk_type = "DEFAULT_RISK"
          /\ predictions[j].risk_type = "DEFAULT_RISK"
          /\ predictions[i].investor_id = predictions[j].investor_id
    /\ \E i \in 1..Len(predictions) :
          predictions[i].risk_type = "FUND_PERFORMANCE_RISK"

\* C25: a default-risk assessment is computed from one snapshot: the balance
\* its loss exposure is computed on is the balance of the feature record its
\* score was computed from.
C25_OneSnapshot ==
    DefaultRiskDone
    => LET balance == IF IsNone(response.feature_record) THEN 1000
                      ELSE Val(Val(response.feature_record).current_balance)
       IN  FracEq(response.estimated_loss_exposure.amount,
                  FracMul(Frac(balance, 1), response.default_probability))

(***************************************************************************)
(* Properties of the response payload                                      *)
(***************************************************************************)
\* the names of the nested fields of a default-risk response
NestedNamesAsDocumented ==
    /\ {"previous_score", "trend", "magnitude"} \subseteq DOMAIN response.risk_trend
    /\ DOMAIN response.estimated_loss_exposure
         = {"amount", "percentage_of_portfolio"}
    /\ \A i \in DOMAIN response.top_risk_factors :
          DOMAIN response.top_risk_factors[i] = {"factor", "weight"}

\* C26, as claimed: the response of a default-risk assessment carries
\* risk_probability, risk_tier, risk_score, risk_trend, top_risk_factors,
\* estimated_loss_exposure and recommended_actions under these names.
C26_FieldNamesWithRiskProbability ==
    DefaultRiskDone
    => /\ {"risk_probability", "risk_tier", "risk_score", "risk_trend",
            "top_risk_factors", "estimated_loss_exposure",
            "recommended_actions"} \subseteq DOMAIN response
       /\ NestedNamesAsDocumented

\* C26, amended: the probability is carried under default_probability, and
\* no field is named risk_probability; the other names are as claimed.
C26_FieldNamesWithDefaultProbability ==
    DefaultRiskDone
    => /\ {"default_probability", "risk_tier", "risk_score", "risk_trend",
            "top_risk_factors", "estimated_loss_exposure",
            "recommended_actions"} \subseteq DOMAIN response
       /\ "risk_probability" \notin DOMAIN response
       /\ NestedNamesAsDocumented

C26_Witness ==
    /\ DefaultRiskDone
    /\ response.include_trend
    /\ Len(response.top_risk_factors) = 1
    /\ response.default_probability = Frac(1900, 40000)
    /\ response.risk_tier = "TIER_2"

(***************************************************************************)
(* Properties of failed assessments                                        *)
(***************************************************************************)
\* C27: whenever an assessment ends with an error, whatever the step that
\* failed, the persisted risk records are what they were before the call.
C27_ErrorLeavesRecords ==
    [][response'.status \notin {"ok", "none"} => predictions' = predictions]_vars

\* the ratios failed after the simulation ran, with records persisted before
C27_Witness ==
    /\ response.op = "assess_fund_performance_risk"
    /\ response.status = "ZeroDivisionError"
    /\ np_random_state.seed = <<42>>
    /\ Len(predictions) = 2
    /\ predictions[1].risk_type = "DEFAULT_RISK"
    /\ predictions[2].risk_type = "FUND_PERFORMANCE_RISK"

(***************************************************************************)
(* Properties of _extract_risk_features                                    *)
(***************************************************************************)
ScoredFields ==
    {"late_payment_count", "missed_payment_count", "on_time_payment_rate",
     "current_balance", "account_growth_rate", "leverage_ratio",
     "recent_sentiment_score"}

\* C29: a default replaces only a missing field: a value the feature record
\* holds, 0 included, reaches the scorer unchanged, and a missing field of an
\* existing record gets the default the field has when the record is absent.
C29_DefaultsOnlyForMissing ==
    (response.op = "_extract_risk_features" /\ ~IsNone(response.feature_record))
    => \A field \in ScoredFields :
         LET column == Val(response.feature_record)[field]
         IN  response.features[field]
               = IF IsNone(column) THEN _generate_default_risk_features[field]
                 ELSE Val(column)

(***************************************************************************)
(* Properties of the trend lookup                                          *)
(***************************************************************************)
TrendLookedUp == response.op = "_calculate_risk_trend"

\* the rows of the table that are DEFAULT_RISK assessments of the investor
OwnDefaultRiskRows ==
    SelectSeq(response.rows,
              LAMBDA p : /\ p.risk_type = "DEFAULT_RISK"
                         /\ p.investor_id = <<response.investor_id>>)

\* C30: previous_score and trend depend only on the earlier DEFAULT_RISK
\* assessments of the same investor: they are what the lookup returns on the
\* table without the fund assessments and the other investors' rows.
C30_TrendOfOwnRowsOnly ==
    TrendLookedUp
    => LET alone == _calculate_risk_trend(OwnDefaultRiskRows,
                        response.investor_id, response.current_score)
       IN  /\ response.previous_score = alone.previous_score
           /\ response.trend = alone.trend

\* two own rows around a fund row and another investor's row
C30_Witness ==
    /\ TrendLookedUp
    /\ Len(response.rows) = 4
    /\ Len(OwnDefaultRiskRows) = 2
    /\ response.rows[1].risk_score = 30
    /\ response.rows[1].investor_id = <<"INV_1">>
    /\ response.rows[4].investor_id = <<"INV_2">>
    /\ response.rows[3].risk_type = "FUND_PERFORMANCE_RISK"
    /\ response.current_score = 14
    /\ response.previous_score = 30
    /\ response.trend = "IMPROVING"

====
